---- MODULE Spec2Model ----
(***************************************************************************)
(* Model of the arithmetic HTTP service: the operation layer               *)
(* (backend/app/utils.py) and the Flask routes (app/main.py).              *)
(*                                                                         *)
(* Python values are tagged records, so that int, bool, float, str and     *)
(* None stay distinct types as they are for isinstance().  A float is an   *)
(* extended rational num/den: finite when den > 0 (reduced), +inf = 1/0,   *)
(* -inf = -1/0, nan = 0/0.  The rounding of the mantissa of a double and   *)
(* the sign of zero are not represented.  The finite range of a double is  *)
(* represented: FloatMax stands for sys.float_info.max, scaled down so     *)
(* that the bounded operands of the model reach beyond it.                 *)
(***************************************************************************)
EXTENDS Integers, Sequences, FiniteSets, TLC

VARIABLES
    method,     \* the HTTP method the client uses
    path,       \* the path the client requests (the rule, for a path ending in a segment)
    query,      \* the query string the client sends: parameter name -> value, None when absent
    segment,    \* the last path segment the client sends to /api/parity/ and /api/odd_even/
    content,    \* the content type and the content of the client's request body
    now,        \* the clock get_current_time() reads
    request,    \* the HTTP request answered last (NoRequest before the first)
    response,   \* the response the service gave to it
    trace,      \* the steps its handler executed, in order
    previous,   \* the status of the last response when the client turned to its present request
    operands,   \* the operands of the direct calls of the operation layer
    call,       \* the operation-layer function called last, with its arguments
    outcome     \* what that call did: the value returned or the exception raised

vars ==
    <<method, path, query, segment, content, now, request, response, trace, previous,
      operands, call, outcome>>

----------------------------------------------------------------------------
(* Bounds of the model.                                                    *)

MaxInt == 12       \* integer operands of direct calls range over -MaxInt..MaxInt
FloatMax == 10     \* largest magnitude a float holds (stand-in for sys.float_info.max)
MaxLen == 2        \* longest query-parameter value, in characters
MaxClock == 1      \* the clock runs from 0 to MaxClock
MaxItems == 3      \* longest list passed to sort_list

----------------------------------------------------------------------------
(* Python values.                                                          *)

IntV(n) == [tag |-> "int", v |-> n]
BoolV(b) == [tag |-> "bool", v |-> b]
StrV(s) == [tag |-> "str", s |-> s]
NoneV == [tag |-> "none"]
PosInf == [tag |-> "float", num |-> 1, den |-> 0]
NegInf == [tag |-> "float", num |-> -1, den |-> 0]
NaN == [tag |-> "float", num |-> 0, den |-> 0]

Abs(n) == IF n < 0 THEN -n ELSE n
Sign(n) == IF n < 0 THEN -1 ELSE IF n > 0 THEN 1 ELSE 0

RECURSIVE Gcd(_, _)
Gcd(a, b) == IF b = 0 THEN a ELSE Gcd(b, a % b)

\* The float nearest to n/d (d # 0): reduced, and infinite beyond the float range.
FloatV(n, d) ==
    LET s == Sign(n) * Sign(d)
        g == Gcd(Abs(n), Abs(d))
    IN  IF Abs(n) > FloatMax * Abs(d)
        THEN [tag |-> "float", num |-> s, den |-> 0]
        ELSE [tag |-> "float", num |-> s * (Abs(n) \div g), den |-> Abs(d) \div g]

IsNaN(x) == x.tag = "float" /\ x.den = 0 /\ x.num = 0
IsInf(x) == x.tag = "float" /\ x.den = 0 /\ x.num # 0
IsFinite(x) == x.tag = "float" /\ x.den > 0

\* What a function call does: it returns a value or raises an exception.
Return(v) == [kind |-> "return", value |-> v]
Raise(e, m) == [kind |-> "raise", exc |-> e, msg |-> m]

\* isinstance(x, types): bool is a subclass of int.
isinstance(x, types) == x.tag \in types \/ (x.tag = "bool" /\ "int" \in types)

\* The integer an int or a bool counts as in arithmetic (True is 1, False is 0).
AsInt(x) == IF x.tag = "bool" THEN (IF x.v THEN 1 ELSE 0) ELSE x.v

\* float(x) for an operand of mixed arithmetic: an int beyond the float range
\* raises OverflowError ("int too large to convert to float").
ToFloat(x) ==
    IF x.tag = "float" THEN Return(x)
    ELSE IF Abs(AsInt(x)) > FloatMax THEN Raise("OverflowError", "int too large to convert to float")
    ELSE Return(FloatV(AsInt(x), 1))

FloatNeg(x) == [tag |-> "float", num |-> -x.num, den |-> x.den]

FloatAdd(x, y) ==
    IF IsNaN(x) \/ IsNaN(y) THEN NaN
    ELSE IF IsInf(x) /\ IsInf(y) THEN (IF x.num = y.num THEN x ELSE NaN)
    ELSE IF IsInf(x) THEN x
    ELSE IF IsInf(y) THEN y
    ELSE FloatV(x.num * y.den + y.num * x.den, x.den * y.den)

FloatMul(x, y) ==
    IF IsNaN(x) \/ IsNaN(y) THEN NaN
    ELSE IF IsInf(x) \/ IsInf(y)
         THEN (IF x.num = 0 \/ y.num = 0 THEN NaN
               ELSE [tag |-> "float", num |-> Sign(x.num) * Sign(y.num), den |-> 0])
    ELSE FloatV(x.num * y.num, x.den * y.den)

\* x / y for floats with y # 0.
FloatDiv(x, y) ==
    IF IsNaN(x) \/ IsNaN(y) THEN NaN
    ELSE IF IsInf(x) /\ IsInf(y) THEN NaN
    ELSE IF IsInf(x) THEN [tag |-> "float", num |-> Sign(x.num) * Sign(y.num), den |-> 0]
    ELSE IF IsInf(y) THEN FloatV(0, 1)
    ELSE FloatV(x.num * y.den, x.den * y.num)

\* The Python operators a + b, a - b, a * b on numbers: exact on integers,
\* float arithmetic as soon as one operand is a float.
PyBinary(op, a, b) ==
    IF a.tag # "float" /\ b.tag # "float"
    THEN Return(IntV(CASE op = "+" -> AsInt(a) + AsInt(b)
                       [] op = "-" -> AsInt(a) - AsInt(b)
                       [] op = "*" -> AsInt(a) * AsInt(b)))
    ELSE LET x == ToFloat(a)
             y == ToFloat(b)
         IN  IF x.kind = "raise" THEN x
             ELSE IF y.kind = "raise" THEN y
             ELSE Return(CASE op = "+" -> FloatAdd(x.value, y.value)
                           [] op = "-" -> FloatAdd(x.value, FloatNeg(y.value))
                           [] op = "*" -> FloatMul(x.value, y.value))

\* x == 0 in Python: true of 0, 0.0 and False, false of nan.
EqualsZero(x) ==
    IF x.tag = "float" THEN x.num = 0 /\ x.den # 0
    ELSE AsInt(x) = 0

\* a / b (true division): always a float; int / int is rounded from the exact
\* quotient and raises OverflowError when the quotient is beyond the float range.
PyTrueDiv(a, b) ==
    IF EqualsZero(b) THEN Raise("ZeroDivisionError", "division by zero")
    ELSE IF a.tag # "float" /\ b.tag # "float"
    THEN IF Abs(AsInt(a)) > FloatMax * Abs(AsInt(b))
         THEN Raise("OverflowError", "integer division result too large for a float")
         ELSE Return(FloatV(AsInt(a), AsInt(b)))
    ELSE LET x == ToFloat(a)
             y == ToFloat(b)
         IN  IF x.kind = "raise" THEN x
             ELSE IF y.kind = "raise" THEN y
             ELSE Return(FloatDiv(x.value, y.value))

\* abs(n)
PyAbs(n) ==
    IF n.tag = "float"
    THEN [tag |-> "float", num |-> Abs(n.num), den |-> n.den]
    ELSE IntV(Abs(AsInt(n)))

\* n & 1 on an integer of unbounded two's-complement width: the lowest bit.
BitAnd1(n) == AsInt(n) % 2

\* bin(n): the sign, the prefix 0b and the binary digits of |n|, most
\* significant first, as a string of characters.
RECURSIVE BinDigits(_)
BinDigits(m) ==
    IF m < 2 THEN <<IF m = 1 THEN "1" ELSE "0">>
    ELSE Append(BinDigits(m \div 2), IF m % 2 = 1 THEN "1" ELSE "0")

bin(n) == (IF n < 0 THEN <<"-">> ELSE <<>>) \o <<"0", "b">> \o BinDigits(Abs(n))

\* The number of characters of s equal to c.
RECURSIVE CountChar(_, _)
CountChar(s, c) ==
    IF s = <<>> THEN 0
    ELSE (IF Head(s) = c THEN 1 ELSE 0) + CountChar(Tail(s), c)

----------------------------------------------------------------------------
(* The operation layer: backend/app/utils.py.                              *)

NumberTypes == {"int", "float"}
MsgBoth == "Both inputs must be integers or floats"
MsgBool == "Boolean values are not allowed"
MsgInteger == "Input must be an integer"
MsgNumber == "Input must be a number (int or float)"

\* add_numbers with the operator of subtract_numbers.
add_numbers_minus(a, b) ==
    IF ~isinstance(a, NumberTypes) \/ ~isinstance(b, NumberTypes)
    THEN Raise("ValueError", MsgBoth)
    ELSE IF isinstance(a, {"bool"}) \/ isinstance(b, {"bool"})
    THEN Raise("ValueError", MsgBool)
    ELSE PyBinary("-", a, b)

add_numbers(a, b) ==
    IF ~isinstance(a, NumberTypes) \/ ~isinstance(b, NumberTypes)
    THEN Raise("ValueError", MsgBoth)
    ELSE IF isinstance(a, {"bool"}) \/ isinstance(b, {"bool"})
    THEN Raise("ValueError", MsgBool)
    ELSE PyBinary("+", a, b)

\* subtract_numbers with its operands exchanged.
subtract_numbers_swapped(a, b) ==
    IF ~isinstance(a, NumberTypes) \/ ~isinstance(b, NumberTypes)
    THEN Raise("ValueError", MsgBoth)
    ELSE IF isinstance(a, {"bool"}) \/ isinstance(b, {"bool"})
    THEN Raise("ValueError", MsgBool)
    ELSE PyBinary("-", b, a)

subtract_numbers(a, b) ==
    IF ~isinstance(a, NumberTypes) \/ ~isinstance(b, NumberTypes)
    THEN Raise("ValueError", MsgBoth)
    ELSE IF isinstance(a, {"bool"}) \/ isinstance(b, {"bool"})
    THEN Raise("ValueError", MsgBool)
    ELSE PyBinary("-", a, b)

\* multiply_numbers without the test that rejects booleans.
multiply_numbers_bool(a, b) ==
    IF ~isinstance(a, NumberTypes) \/ ~isinstance(b, NumberTypes)
    THEN Raise("ValueError", MsgBoth)
    ELSE PyBinary("*", a, b)

multiply_numbers(a, b) ==
    IF ~isinstance(a, NumberTypes) \/ ~isinstance(b, NumberTypes)
    THEN Raise("ValueError", MsgBoth)
    ELSE IF isinstance(a, {"bool"}) \/ isinstance(b, {"bool"})
    THEN Raise("ValueError", MsgBool)
    ELSE PyBinary("*", a, b)

\* divide_numbers testing for zero before it tests the types.
divide_numbers_zero_first(a, b) ==
    IF b.tag \in {"int", "float", "bool"} /\ EqualsZero(b)
    THEN Raise("ZeroDivisionError", "Cannot divide by zero")
    ELSE IF ~isinstance(a, NumberTypes) \/ ~isinstance(b, NumberTypes)
    THEN Raise("ValueError", MsgBoth)
    ELSE IF isinstance(a, {"bool"}) \/ isinstance(b, {"bool"})
    THEN Raise("ValueError", MsgBool)
    ELSE PyTrueDiv(a, b)

divide_numbers(a, b) ==
    IF ~isinstance(a, NumberTypes) \/ ~isinstance(b, NumberTypes)
    THEN Raise("ValueError", MsgBoth)
    ELSE IF isinstance(a, {"bool"}) \/ isinstance(b, {"bool"})
    THEN Raise("ValueError", MsgBool)
    ELSE IF EqualsZero(b)
    THEN Raise("ZeroDivisionError", "Cannot divide by zero")
    ELSE PyTrueDiv(a, b)

\* even_parity slicing bin(n) one character late.
even_parity_late(n) ==
    IF ~isinstance(n, {"int"}) \/ isinstance(n, {"bool"})
    THEN Raise("ValueError", MsgInteger)
    ELSE LET bits == SubSeq(bin(n.v), 4, Len(bin(n.v)))
             count == CountChar(bits, "1")
         IN  Return(BoolV(count % 2 = 0))

even_parity(n) ==
    IF ~isinstance(n, {"int"}) \/ isinstance(n, {"bool"})
    THEN Raise("ValueError", MsgInteger)
    ELSE LET bits == SubSeq(bin(n.v), 3, Len(bin(n.v)))
             count == CountChar(bits, "1")
         IN  Return(BoolV(count % 2 = 0))

\* is_even taking a whole-valued float for the integer it equals.
is_even_whole(n) ==
    IF n.tag = "float" /\ IsFinite(n) /\ n.den = 1
    THEN Return(BoolV(n.num % 2 = 0))
    ELSE IF ~isinstance(n, {"int"}) \/ isinstance(n, {"bool"})
    THEN Raise("ValueError", MsgInteger)
    ELSE Return(BoolV(BitAnd1(n) = 0))

is_even(n) ==
    IF ~isinstance(n, {"int"}) \/ isinstance(n, {"bool"})
    THEN Raise("ValueError", MsgInteger)
    ELSE Return(BoolV(BitAnd1(n) = 0))

\* is_odd with the return expression of is_even.
is_odd_copy(n) ==
    IF ~isinstance(n, {"int"}) \/ isinstance(n, {"bool"})
    THEN Raise("ValueError", MsgInteger)
    ELSE Return(BoolV(BitAnd1(n) = 0))

is_odd(n) ==
    IF ~isinstance(n, {"int"}) \/ isinstance(n, {"bool"})
    THEN Raise("ValueError", MsgInteger)
    ELSE Return(BoolV(BitAnd1(n) # 0))

\* square without the test that rejects booleans.
square_bool(n) ==
    IF ~isinstance(n, NumberTypes)
    THEN Raise("ValueError", MsgNumber)
    ELSE PyBinary("*", n, n)

square(n) ==
    IF ~isinstance(n, NumberTypes) \/ isinstance(n, {"bool"})
    THEN Raise("ValueError", MsgNumber)
    ELSE PyBinary("*", n, n)

\* absolute_value returning its argument as it is.
absolute_value_identity(n) ==
    IF ~isinstance(n, NumberTypes) \/ isinstance(n, {"bool"})
    THEN Raise("ValueError", MsgNumber)
    ELSE Return(n)

absolute_value(n) ==
    IF ~isinstance(n, NumberTypes) \/ isinstance(n, {"bool"})
    THEN Raise("ValueError", MsgNumber)
    ELSE Return(PyAbs(n))

----------------------------------------------------------------------------
(* Direct calls of the operation layer, as its unit tests make them.       *)

IntOperands == {IntV(n) : n \in -MaxInt..MaxInt}
BoolOperands == {BoolV(TRUE), BoolV(FALSE)}
FloatOperands ==
    {FloatV(n, d) : n \in -MaxInt..MaxInt, d \in {1, 2}} \cup {PosInf, NegInf, NaN}
OtherOperands == {StrV(<<"5">>), StrV(<<>>), NoneV}
Operands == IntOperands \cup BoolOperands \cup FloatOperands \cup OtherOperands

NoCall == [fn |-> "none", args |-> <<>>]
NoOutcome == [kind |-> "none"]
NoRequest == [route |-> "none"]
NoResponse == [status |-> 0]
NoQuery == [a |-> NoneV, b |-> NoneV, n |-> NoneV, message |-> NoneV]
NoBody == [mimetype |-> "", parses |-> FALSE, json |-> NoneV]

\* The caller's operands are drawn at the start; each action calls one
\* function of the layer with them (the one-operand functions with the first).
OpsInit ==
    /\ operands \in Operands \X Operands
    /\ call = NoCall
    /\ outcome = NoOutcome
    /\ method = "GET"
    /\ path = "/"
    /\ query = NoQuery
    /\ segment = StrV(<<>>)
    /\ content = NoBody
    /\ now = 0
    /\ request = NoRequest
    /\ response = NoResponse
    /\ trace = <<>>
    /\ previous = 0

Call2(fn, result) ==
    /\ call' = [fn |-> fn, args |-> operands]
    /\ outcome' = result
    /\ UNCHANGED <<operands, method, path, query, segment, content, now, request, response,
                   trace, previous>>

Call1(fn, result) ==
    /\ call' = [fn |-> fn, args |-> <<operands[1]>>]
    /\ outcome' = result
    /\ UNCHANGED <<operands, method, path, query, segment, content, now, request, response,
                   trace, previous>>

CallAddNumbers == Call2("add_numbers", add_numbers(operands[1], operands[2]))
CallSubtractNumbers == Call2("subtract_numbers", subtract_numbers(operands[1], operands[2]))
CallMultiplyNumbers == Call2("multiply_numbers", multiply_numbers(operands[1], operands[2]))
CallDivideNumbers == Call2("divide_numbers", divide_numbers(operands[1], operands[2]))
CallEvenParity == Call1("even_parity", even_parity(operands[1]))
CallIsEven == Call1("is_even", is_even(operands[1]))
CallIsOdd == Call1("is_odd", is_odd(operands[1]))
CallSquare == Call1("square", square(operands[1]))
CallAbsoluteValue == Call1("absolute_value", absolute_value(operands[1]))

OpsNext ==
    \/ CallAddNumbers
    \/ CallSubtractNumbers
    \/ CallMultiplyNumbers
    \/ CallDivideNumbers
    \/ CallEvenParity
    \/ CallIsEven
    \/ CallIsOdd
    \/ CallSquare
    \/ CallAbsoluteValue

OpsSpec == OpsInit /\ [][OpsNext]_vars

----------------------------------------------------------------------------
(* Strings and int(): the conversion of a query-parameter value.           *)

\* The characters of query-parameter values: two digits, the minus sign,
\* white space, and a character no integer literal contains.
Alphabet == {"0", "1", "-", " ", "."}
Strings == UNION {[1..k -> Alphabet] : k \in 0..MaxLen}
ArgVals == {NoneV} \cup {StrV(s) : s \in Strings}

DigitChars == {"0", "1", "2", "3", "4", "5", "6", "7", "8", "9"}
DigitValue(c) ==
    CASE c = "0" -> 0 [] c = "1" -> 1 [] c = "2" -> 2 [] c = "3" -> 3 [] c = "4" -> 4
      [] c = "5" -> 5 [] c = "6" -> 6 [] c = "7" -> 7 [] c = "8" -> 8 [] c = "9" -> 9

RECURSIVE LStrip(_)
LStrip(s) == IF s # <<>> /\ Head(s) = " " THEN LStrip(Tail(s)) ELSE s

RECURSIVE RStrip(_)
RStrip(s) == IF s # <<>> /\ s[Len(s)] = " " THEN RStrip(SubSeq(s, 1, Len(s) - 1)) ELSE s

RECURSIVE Decimal(_)
Decimal(ds) ==
    IF ds = <<>> THEN 0
    ELSE 10 * Decimal(SubSeq(ds, 1, Len(ds) - 1)) + DigitValue(ds[Len(ds)])

\* int(x) of a str: surrounding white space is dropped, one sign may lead,
\* and at least one digit must follow, digits only; anything else raises
\* ValueError.  int(None) raises TypeError.  (Digit grouping with "_" and
\* non-ASCII digits need characters outside Alphabet.  CPython's configurable
\* limit on the length of int/str conversions, sys.set_int_max_str_digits, is
\* a setting of the interpreter and is taken to be off.)
\* int(x) giving the string "1" as the boolean True.
py_int_bool(x) ==
    IF x.tag # "str" THEN Raise("TypeError", "int() argument must be a string or a number")
    ELSE IF x.s = <<"1">> THEN Return(BoolV(TRUE))
    ELSE LET t == RStrip(LStrip(x.s))
             signed == t # <<>> /\ Head(t) \in {"-", "+"}
             digits == IF signed THEN Tail(t) ELSE t
         IN  IF digits # <<>> /\ \A i \in 1..Len(digits) : digits[i] \in DigitChars
             THEN Return(IntV(IF signed /\ Head(t) = "-"
                              THEN -Decimal(digits) ELSE Decimal(digits)))
             ELSE Raise("ValueError", "invalid literal for int() with base 10")

py_int(x) ==
    IF x.tag # "str" THEN Raise("TypeError", "int() argument must be a string or a number")
    ELSE LET t == RStrip(LStrip(x.s))
             signed == t # <<>> /\ Head(t) \in {"-", "+"}
             digits == IF signed THEN Tail(t) ELSE t
         IN  IF digits # <<>> /\ \A i \in 1..Len(digits) : digits[i] \in DigitChars
             THEN Return(IntV(IF signed /\ Head(t) = "-"
                              THEN -Decimal(digits) ELSE Decimal(digits)))
             ELSE Raise("ValueError", "invalid literal for int() with base 10")

----------------------------------------------------------------------------
(* The HTTP layer: app/main.py.                                            *)

\* get_current_time(): the reading of the clock (rendered in ISO format).
get_current_time == now

\* jsonify(body), status: every handler answers with a JSON body.
Respond(status, body, steps) ==
    [response |-> [status |-> status, mimetype |-> "application/json", body |-> body],
     trace |-> steps]

MsgRequiredAB == "Parameters 'a' and 'b' are required"
MsgRequiredN == "Parameter 'n' is required"
MsgValidIntegers == "Parameters must be valid integers"
MsgValidInteger == "Parameter must be a valid integer"
MsgDivisionByZero == "Division by zero is not allowed"

\* @app.errorhandler(500): what Flask answers when a handler lets an
\* exception escape (outside debug and testing mode, where it propagates).
internal_server_error(steps) ==
    Respond(500,
            [error |-> "Internal server error", status |-> 500,
             message |-> "An unexpected error occurred", timestamp |-> get_current_time],
            Append(steps, "errorhandler(500)"))

\* The except clauses of a handler: `caught` maps each exception type the
\* try statement names to the message of its 400 answer; any other exception
\* escapes the handler.
Except(raised, caught, steps) ==
    IF raised.exc \in DOMAIN caught
    THEN Respond(400, [error |-> caught[raised.exc]],
                 Append(steps, "except " \o raised.exc))
    ELSE internal_server_error(steps)

\* add answering "required" only when both parameters are absent.
add_and(q) ==
    LET caught == [ValueError |-> MsgValidIntegers]
        s0 == <<"args.get">>
    IN  IF q.a = NoneV /\ q.b = NoneV
        THEN Respond(400, [error |-> MsgRequiredAB], Append(s0, "required"))
        ELSE LET a == py_int(q.a)
                 s1 == Append(s0, "int(a)")
             IN  IF a.kind = "raise" THEN Except(a, caught, s1)
                 ELSE LET b == py_int(q.b)
                          s2 == Append(s1, "int(b)")
                      IN  IF b.kind = "raise" THEN Except(b, caught, s2)
                          ELSE LET result == add_numbers(a.value, b.value)
                                   s3 == Append(s2, "add_numbers")
                               IN  IF result.kind = "raise" THEN Except(result, caught, s3)
                                   ELSE Respond(200,
                                                [operation |-> "add", a |-> a.value,
                                                 b |-> b.value, result |-> result.value,
                                                 timestamp |-> get_current_time],
                                                Append(s3, "jsonify"))

add(q) ==
    LET caught == [ValueError |-> MsgValidIntegers]
        s0 == <<"args.get">>
    IN  IF q.a = NoneV \/ q.b = NoneV
        THEN Respond(400, [error |-> MsgRequiredAB], Append(s0, "required"))
        ELSE LET a == py_int(q.a)
                 s1 == Append(s0, "int(a)")
             IN  IF a.kind = "raise" THEN Except(a, caught, s1)
                 ELSE LET b == py_int(q.b)
                          s2 == Append(s1, "int(b)")
                      IN  IF b.kind = "raise" THEN Except(b, caught, s2)
                          ELSE LET result == add_numbers(a.value, b.value)
                                   s3 == Append(s2, "add_numbers")
                               IN  IF result.kind = "raise" THEN Except(result, caught, s3)
                                   ELSE Respond(200,
                                                [operation |-> "add", a |-> a.value,
                                                 b |-> b.value, result |-> result.value,
                                                 timestamp |-> get_current_time],
                                                Append(s3, "jsonify"))

\* subtract answering without the operands in the body.
subtract_without_inputs(q) ==
    LET caught == [ValueError |-> MsgValidIntegers]
        s0 == <<"args.get">>
    IN  IF q.a = NoneV \/ q.b = NoneV
        THEN Respond(400, [error |-> MsgRequiredAB], Append(s0, "required"))
        ELSE LET a == py_int(q.a)
                 s1 == Append(s0, "int(a)")
             IN  IF a.kind = "raise" THEN Except(a, caught, s1)
                 ELSE LET b == py_int(q.b)
                          s2 == Append(s1, "int(b)")
                      IN  IF b.kind = "raise" THEN Except(b, caught, s2)
                          ELSE LET result == subtract_numbers(a.value, b.value)
                                   s3 == Append(s2, "subtract_numbers")
                               IN  IF result.kind = "raise" THEN Except(result, caught, s3)
                                   ELSE Respond(200,
                                                [operation |-> "subtract",
                                                 result |-> result.value,
                                                 timestamp |-> get_current_time],
                                                Append(s3, "jsonify"))

subtract(q) ==
    LET caught == [ValueError |-> MsgValidIntegers]
        s0 == <<"args.get">>
    IN  IF q.a = NoneV \/ q.b = NoneV
        THEN Respond(400, [error |-> MsgRequiredAB], Append(s0, "required"))
        ELSE LET a == py_int(q.a)
                 s1 == Append(s0, "int(a)")
             IN  IF a.kind = "raise" THEN Except(a, caught, s1)
                 ELSE LET b == py_int(q.b)
                          s2 == Append(s1, "int(b)")
                      IN  IF b.kind = "raise" THEN Except(b, caught, s2)
                          ELSE LET result == subtract_numbers(a.value, b.value)
                                   s3 == Append(s2, "subtract_numbers")
                               IN  IF result.kind = "raise" THEN Except(result, caught, s3)
                                   ELSE Respond(200,
                                                [operation |-> "subtract", a |-> a.value,
                                                 b |-> b.value, result |-> result.value,
                                                 timestamp |-> get_current_time],
                                                Append(s3, "jsonify"))

\* multiply converting a supplied parameter a before it tests that both
\* parameters are there.
multiply_int_first(q) ==
    IF q.a # NoneV /\ py_int(q.a).kind = "raise"
    THEN Respond(400, [error |-> MsgValidIntegers], <<"args.get", "int(a)", "except ValueError">>)
    ELSE LET caught == [ValueError |-> MsgValidIntegers]
             s0 == <<"args.get">>
         IN  IF q.a = NoneV \/ q.b = NoneV
             THEN Respond(400, [error |-> MsgRequiredAB], Append(s0, "required"))
             ELSE LET a == py_int(q.a)
                      b == py_int(q.b)
                  IN  IF b.kind = "raise"
                      THEN Except(b, caught, <<"args.get", "int(a)", "int(b)">>)
                      ELSE LET result == multiply_numbers(a.value, b.value)
                           IN  Respond(200,
                                       [operation |-> "multiply", a |-> a.value,
                                        b |-> b.value, result |-> result.value,
                                        timestamp |-> get_current_time],
                                       <<"args.get", "int(a)", "int(b)",
                                         "multiply_numbers", "jsonify">>)

multiply(q) ==
    LET caught == [ValueError |-> MsgValidIntegers]
        s0 == <<"args.get">>
    IN  IF q.a = NoneV \/ q.b = NoneV
        THEN Respond(400, [error |-> MsgRequiredAB], Append(s0, "required"))
        ELSE LET a == py_int(q.a)
                 s1 == Append(s0, "int(a)")
             IN  IF a.kind = "raise" THEN Except(a, caught, s1)
                 ELSE LET b == py_int(q.b)
                          s2 == Append(s1, "int(b)")
                      IN  IF b.kind = "raise" THEN Except(b, caught, s2)
                          ELSE LET result == multiply_numbers(a.value, b.value)
                                   s3 == Append(s2, "multiply_numbers")
                               IN  IF result.kind = "raise" THEN Except(result, caught, s3)
                                   ELSE Respond(200,
                                                [operation |-> "multiply", a |-> a.value,
                                                 b |-> b.value, result |-> result.value,
                                                 timestamp |-> get_current_time],
                                                Append(s3, "jsonify"))

\* divide testing b for zero before a is converted.
divide_zero_first(q) ==
    LET caught == [ValueError |-> MsgValidIntegers, ZeroDivisionError |-> MsgDivisionByZero]
        s0 == <<"args.get">>
    IN  IF q.a = NoneV \/ q.b = NoneV
        THEN Respond(400, [error |-> MsgRequiredAB], Append(s0, "required"))
        ELSE LET b == py_int(q.b)
                 s1 == Append(s0, "int(b)")
             IN  IF b.kind = "raise" THEN Except(b, caught, s1)
                 ELSE IF EqualsZero(b.value)
                 THEN Except(Raise("ZeroDivisionError", "Cannot divide by zero"), caught, s1)
                 ELSE LET a == py_int(q.a)
                          s2 == Append(s1, "int(a)")
                      IN  IF a.kind = "raise" THEN Except(a, caught, s2)
                          ELSE LET result == divide_numbers(a.value, b.value)
                                   s3 == Append(s2, "divide_numbers")
                               IN  IF result.kind = "raise" THEN Except(result, caught, s3)
                                   ELSE Respond(200,
                                                [operation |-> "divide", a |-> a.value,
                                                 b |-> b.value, result |-> result.value,
                                                 timestamp |-> get_current_time],
                                                Append(s3, "jsonify"))

divide(q) ==
    LET caught == [ValueError |-> MsgValidIntegers, ZeroDivisionError |-> MsgDivisionByZero]
        s0 == <<"args.get">>
    IN  IF q.a = NoneV \/ q.b = NoneV
        THEN Respond(400, [error |-> MsgRequiredAB], Append(s0, "required"))
        ELSE LET a == py_int(q.a)
                 s1 == Append(s0, "int(a)")
             IN  IF a.kind = "raise" THEN Except(a, caught, s1)
                 ELSE LET b == py_int(q.b)
                          s2 == Append(s1, "int(b)")
                      IN  IF b.kind = "raise" THEN Except(b, caught, s2)
                          ELSE LET result == divide_numbers(a.value, b.value)
                                   s3 == Append(s2, "divide_numbers")
                               IN  IF result.kind = "raise" THEN Except(result, caught, s3)
                                   ELSE Respond(200,
                                                [operation |-> "divide", a |-> a.value,
                                                 b |-> b.value, result |-> result.value,
                                                 timestamp |-> get_current_time],
                                                Append(s3, "jsonify"))

\* square_endpoint with the except clause of the two-operand handlers.
square_endpoint_plural(q) ==
    LET caught == [ValueError |-> MsgValidIntegers]
        s0 == <<"args.get">>
    IN  IF q.n = NoneV
        THEN Respond(400, [error |-> MsgRequiredN], Append(s0, "required"))
        ELSE LET n == py_int(q.n)
                 s1 == Append(s0, "int(n)")
             IN  IF n.kind = "raise" THEN Except(n, caught, s1)
                 ELSE LET result == square(n.value)
                          s2 == Append(s1, "square")
                      IN  IF result.kind = "raise" THEN Except(result, caught, s2)
                          ELSE Respond(200,
                                       [operation |-> "square", input |-> n.value,
                                        result |-> result.value,
                                        timestamp |-> get_current_time],
                                       Append(s2, "jsonify"))

square_endpoint(q) ==
    LET caught == [ValueError |-> MsgValidInteger]
        s0 == <<"args.get">>
    IN  IF q.n = NoneV
        THEN Respond(400, [error |-> MsgRequiredN], Append(s0, "required"))
        ELSE LET n == py_int(q.n)
                 s1 == Append(s0, "int(n)")
             IN  IF n.kind = "raise" THEN Except(n, caught, s1)
                 ELSE LET result == square(n.value)
                          s2 == Append(s1, "square")
                      IN  IF result.kind = "raise" THEN Except(result, caught, s2)
                          ELSE Respond(200,
                                       [operation |-> "square", input |-> n.value,
                                        result |-> result.value,
                                        timestamp |-> get_current_time],
                                       Append(s2, "jsonify"))

absolute_endpoint(q) ==
    LET caught == [ValueError |-> MsgValidInteger]
        s0 == <<"args.get">>
    IN  IF q.n = NoneV
        THEN Respond(400, [error |-> MsgRequiredN], Append(s0, "required"))
        ELSE LET n == py_int(q.n)
                 s1 == Append(s0, "int(n)")
             IN  IF n.kind = "raise" THEN Except(n, caught, s1)
                 ELSE LET result == absolute_value(n.value)
                          s2 == Append(s1, "absolute_value")
                      IN  IF result.kind = "raise" THEN Except(result, caught, s2)
                          ELSE Respond(200,
                                       [operation |-> "absolute_value", input |-> n.value,
                                        result |-> result.value,
                                        timestamp |-> get_current_time],
                                       Append(s2, "jsonify"))

\* The <int:n> converter of a route (werkzeug's IntegerConverter, unsigned):
\* the path segment matches when it is one or more digits, and is then
\* converted with int().  A segment with a sign, white space or any other
\* character matches no route.
\* The converter taking a leading minus sign as well (signed=True).
IntegerConverterMatches_signed(seg) ==
    LET digits == IF seg.s # <<>> /\ Head(seg.s) = "-" THEN Tail(seg.s) ELSE seg.s
    IN  /\ digits # <<>>
        /\ \A i \in 1..Len(digits) : digits[i] \in DigitChars

IntegerConverterMatches(seg) ==
    /\ seg.s # <<>>
    /\ \A i \in 1..Len(seg.s) : seg.s[i] \in DigitChars

IntegerConverter(seg) == py_int(seg).value

\* parity_endpoint reporting the parity of the count of 1 bits instead.
parity_endpoint_bits(n) ==
    LET even == even_parity(n)
        s1 == <<"is_even">>
    IN  IF even.kind = "raise"
        THEN Respond(400, [error |-> even.msg], Append(s1, "except ValueError"))
        ELSE Respond(200,
                     [operation |-> "parity", input |-> n,
                      is_even |-> even.value, is_odd |-> BoolV(~even.value.v),
                      parity |-> IF even.value.v THEN "even" ELSE "odd",
                      timestamp |-> get_current_time],
                     <<"is_even", "is_odd", "jsonify">>)

parity_endpoint(n) ==
    LET even == is_even(n)
        s1 == <<"is_even">>
    IN  IF even.kind = "raise"
        THEN IF even.exc = "ValueError"
             THEN Respond(400, [error |-> even.msg], Append(s1, "except ValueError"))
             ELSE internal_server_error(s1)
        ELSE LET odd == is_odd(n)
                 s2 == Append(s1, "is_odd")
             IN  IF odd.kind = "raise"
                 THEN IF odd.exc = "ValueError"
                      THEN Respond(400, [error |-> odd.msg], Append(s2, "except ValueError"))
                      ELSE internal_server_error(s2)
                 ELSE Respond(200,
                              [operation |-> "parity", input |-> n,
                               is_even |-> even.value, is_odd |-> odd.value,
                               parity |-> IF even.value.v THEN "even" ELSE "odd",
                               timestamp |-> get_current_time],
                              Append(s2, "jsonify"))

\* odd_even_endpoint naming the parity after is_odd.
odd_even_endpoint_inverted(n) ==
    LET even == is_even(n)
        odd == is_odd(n)
    IN  IF even.kind = "raise" \/ odd.kind = "raise"
        THEN internal_server_error(<<"is_even">>)
        ELSE Respond(200,
                     [operation |-> "Odd/Even Check", input |-> n,
                      is_even |-> even.value, is_odd |-> odd.value,
                      status |-> IF odd.value.v THEN "even" ELSE "odd",
                      timestamp |-> get_current_time],
                     <<"is_even", "is_odd", "jsonify">>)

odd_even_endpoint(n) ==
    LET even == is_even(n)
        s1 == <<"is_even">>
    IN  IF even.kind = "raise"
        THEN IF even.exc = "ValueError"
             THEN Respond(400, [error |-> even.msg], Append(s1, "except ValueError"))
             ELSE internal_server_error(s1)
        ELSE LET odd == is_odd(n)
                 s2 == Append(s1, "is_odd")
             IN  IF odd.kind = "raise"
                 THEN IF odd.exc = "ValueError"
                      THEN Respond(400, [error |-> odd.msg], Append(s2, "except ValueError"))
                      ELSE internal_server_error(s2)
                 ELSE LET status == IF even.value.v THEN "even" ELSE "odd"
                      IN  Respond(200,
                                  [operation |-> "Odd/Even Check", input |-> n,
                                   is_even |-> even.value, is_odd |-> odd.value,
                                   status |-> status,
                                   timestamp |-> get_current_time],
                                  Append(s2, "jsonify"))

\* JSON values of a request body.  An object is modelled by the two fields
\* the model sends, each holding Absent when the object has no such key.
Absent == [tag |-> "absent"]
DictV(m, o) == [tag |-> "dict", message |-> m, other |-> o]
ListV(items) == [tag |-> "list", elems |-> items]

\* The test `data is not None` in the place of the truth value of data.
Truthy_not_none(x) == x.tag # "none"

\* bool(x) of a parsed JSON value: None, False, 0, "", [] and {} are false.
Truthy(x) ==
    CASE x.tag = "none" -> FALSE
      [] x.tag = "bool" -> x.v
      [] x.tag = "int" -> x.v # 0
      [] x.tag = "str" -> x.s # <<>>
      [] x.tag = "list" -> x.elems # <<>>
      [] x.tag = "dict" -> x.message # Absent \/ x.other # Absent

\* data.get("message"), whose default is None.
DataGet_none(data) ==
    IF data.tag # "dict"
    THEN Raise("AttributeError", "object has no attribute 'get'")
    ELSE Return(IF data.message = Absent THEN NoneV ELSE data.message)

\* data.get("message", ""): only a dict has the method.
DataGet(data) ==
    IF data.tag # "dict"
    THEN Raise("AttributeError", "object has no attribute 'get'")
    ELSE Return(IF data.message = Absent THEN StrV(<<>>) ELSE data.message)

\* The answer werkzeug gives for an HTTPException no error handler is
\* registered for: an HTML page (the model keeps its title only).
HttpError(code, title, steps) ==
    [response |-> [status |-> code, mimetype |-> "text/html", body |-> [html |-> title]],
     trace |-> steps]

\* request.get_json(): the outcomes for a request body.  A body whose content
\* type is JSON is parsed, and BadRequest (400) is raised when it is not
\* valid JSON.  A body of another content type is not parsed: Flask 2.1 and
\* later raise UnsupportedMediaType (415), earlier releases return None.
get_json(b) ==
    IF b.mimetype = "application/json"
    THEN IF b.parses THEN {Return(b.json)} ELSE {Raise("BadRequest", "400 Bad Request")}
    ELSE {Raise("UnsupportedMediaType", "415 Unsupported Media Type"), Return(NoneV)}

\* echo preferring the 'message' query parameter to the body on POST.
echo_args_first(m, q, parsed) ==
    LET answer(message, steps) ==
            Respond(200,
                    [operation |-> "echo", message |-> message,
                     timestamp |-> get_current_time],
                    Append(steps, "jsonify"))
    IN  IF m = "POST" /\ q.message = NoneV
        THEN LET s1 == <<"get_json">>
             IN  IF parsed.kind = "raise"
                 THEN IF parsed.exc = "BadRequest"
                      THEN HttpError(400, "400 Bad Request", s1)
                      ELSE HttpError(415, "415 Unsupported Media Type", s1)
                 ELSE IF ~Truthy(parsed.value)
                      THEN answer(StrV(<<>>), s1)
                      ELSE LET message == DataGet(parsed.value)
                               s2 == Append(s1, "data.get")
                           IN  IF message.kind = "raise"
                               THEN internal_server_error(s2)
                               ELSE answer(message.value, s2)
        ELSE answer(IF q.message = NoneV THEN StrV(<<>>) ELSE q.message, <<"args.get">>)

\* echo(): `parsed` is the outcome of request.get_json() for the request.
echo(m, q, parsed) ==
    LET answer(message, steps) ==
            Respond(200,
                    [operation |-> "echo", message |-> message,
                     timestamp |-> get_current_time],
                    Append(steps, "jsonify"))
    IN  IF m = "POST"
        THEN LET s1 == <<"get_json">>
             IN  IF parsed.kind = "raise"
                 THEN IF parsed.exc = "BadRequest"
                      THEN HttpError(400, "400 Bad Request", s1)
                      ELSE HttpError(415, "415 Unsupported Media Type", s1)
                 ELSE IF ~Truthy(parsed.value)
                      THEN answer(StrV(<<>>), s1)
                      ELSE LET message == DataGet(parsed.value)
                               s2 == Append(s1, "data.get")
                           IN  IF message.kind = "raise"
                               THEN internal_server_error(s2)
                               ELSE answer(message.value, s2)
        ELSE answer(IF q.message = NoneV THEN StrV(<<>>) ELSE q.message, <<"args.get">>)

\* health_check reporting the status 'ok'.
health_check_ok ==
    Respond(200,
            [status |-> "ok", message |-> "Python CI/CD App is running!",
             timestamp |-> get_current_time],
            <<"jsonify">>)

health_check ==
    Respond(200,
            [status |-> "healthy", message |-> "Python CI/CD App is running!",
             timestamp |-> get_current_time],
            <<"jsonify">>)

detailed_health_check ==
    Respond(200,
            [status |-> "healthy", service |-> "python-cicd-app", version |-> "1.0.0",
             message |-> "Application is operational", timestamp |-> get_current_time,
             environment |-> "development"],
            <<"jsonify">>)

\* The endpoints /api/info lists, each with the methods it names.
InfoEndpoints ==
    <<[path |-> "/", method |-> {"GET"}],
      [path |-> "/api/health", method |-> {"GET"}],
      [path |-> "/api/info", method |-> {"GET"}],
      [path |-> "/api/add?a=<num>&b=<num>", method |-> {"GET"}],
      [path |-> "/api/subtract?a=<num>&b=<num>", method |-> {"GET"}],
      [path |-> "/api/multiply?a=<num>&b=<num>", method |-> {"GET"}],
      [path |-> "/api/divide?a=<num>&b=<num>", method |-> {"GET"}],
      [path |-> "/api/square?n=<num>", method |-> {"GET"}],
      [path |-> "/api/abs?n=<num>", method |-> {"GET"}],
      [path |-> "/api/parity/<n>", method |-> {"GET"}],
      [path |-> "/api/echo", method |-> {"GET", "POST"}]>>

app_info ==
    Respond(200,
            [app_name |-> "Python CI/CD Learning Project", version |-> "1.0.0",
             description |-> "Educational CI/CD pipeline demonstration",
             endpoints |-> InfoEndpoints, timestamp |-> get_current_time],
            <<"jsonify">>)

\* @app.errorhandler(404): no route matches the path.
not_found ==
    Respond(404,
            [error |-> "Endpoint not found", status |-> 404,
             message |-> "The requested endpoint does not exist",
             timestamp |-> get_current_time],
            <<"errorhandler(404)">>)

\* The 405 handler answering with the body of the 404 handler.
method_not_allowed_as_404 ==
    Respond(405,
            [error |-> "Endpoint not found", status |-> 404,
             message |-> "The requested endpoint does not exist",
             timestamp |-> get_current_time],
            <<"errorhandler(405)">>)

\* @app.errorhandler(405): a route matches the path but not the method.
method_not_allowed ==
    Respond(405,
            [error |-> "Method not allowed", status |-> 405,
             message |-> "The HTTP method is not allowed for this endpoint",
             timestamp |-> get_current_time],
            <<"errorhandler(405)">>)

----------------------------------------------------------------------------
(* The service answering requests.  What the client sends (method, path,   *)
(* query string, body) is drawn at the start; each action is one route     *)
(* answering the request when its path is the route's.                     *)

\* The methods a client uses: the two the routes name, and one none does.
\* (HEAD and OPTIONS, which Flask answers by itself, are not modelled.)
Methods == {"GET", "POST", "DELETE"}

\* The characters of path segments: digits, the minus sign, and a
\* character no integer literal contains.
SegmentAlphabet == {"0", "1", "3", "4", "-", "."}
Segments == UNION {[1..k -> SegmentAlphabet] : k \in 0..MaxLen}

\* The query strings: with the parameters a and b, with n, with message.
QueriesAB == {[a |-> x, b |-> y, n |-> NoneV, message |-> NoneV] : x, y \in ArgVals}
QueriesN == {[a |-> NoneV, b |-> NoneV, n |-> x, message |-> NoneV] : x \in ArgVals}
QueriesMessage == {[a |-> NoneV, b |-> NoneV, n |-> NoneV, message |-> x] : x \in ArgVals}
Queries == QueriesAB \cup QueriesN \cup QueriesMessage

\* The 'message' values of a JSON object body: strings, and values of
\* other JSON types.
MessageVals == {StrV(s) : s \in Strings} \cup {NoneV, IntV(1)}
JsonObjects ==
    {DictV(m, o) : m \in MessageVals \cup {Absent}, o \in {Absent, IntV(1)}}
JsonValues ==
    JsonObjects \cup
        {NoneV, BoolV(FALSE), BoolV(TRUE), IntV(0), IntV(1), StrV(<<>>), StrV(<<"1">>),
         ListV(<<>>), ListV(<<IntV(1)>>)}

\* Request bodies: JSON documents and text that is not JSON, sent with the
\* JSON content type or with another one; NoBody is a request without body.
Bodies ==
    {[mimetype |-> "application/json", parses |-> TRUE, json |-> v] : v \in JsonValues}
        \cup {[mimetype |-> "application/json", parses |-> FALSE, json |-> NoneV],
              [mimetype |-> "text/plain", parses |-> FALSE, json |-> NoneV],
              [mimetype |-> "text/plain", parses |-> TRUE,
               json |-> DictV(StrV(<<"1">>), Absent)],
              NoBody}

\* The paths a client requests: those of the routes, and one no route has.
TwoOperandRoutes == {"/api/add", "/api/subtract", "/api/multiply", "/api/divide"}
OneOperandRoutes == {"/api/square", "/api/abs"}
IntegerRoutes == {"/api/parity/<int:n>", "/api/odd_even/<int:n>"}
Paths ==
    {"/", "/api/health", "/api/info", "/api/echo", "/api/nonexistent"}
        \cup TwoOperandRoutes \cup OneOperandRoutes \cup IntegerRoutes

\* The requests of a client: GET of a path with the parameters its route
\* reads, or with none; any method on a path ending in a segment; POST to
\* /api/echo with a body; a method other than GET on any path, with a query
\* string the routes accept.
Clients ==
    {[method |-> "GET", path |-> p, query |-> q, segment |-> StrV(<<>>),
      body |-> NoBody] : p \in TwoOperandRoutes, q \in QueriesAB}
        \cup {[method |-> "GET", path |-> p, query |-> q, segment |-> StrV(<<>>),
               body |-> NoBody] : p \in OneOperandRoutes, q \in QueriesN}
        \cup {[method |-> "GET", path |-> "/api/echo", query |-> q,
               segment |-> StrV(<<>>), body |-> NoBody] : q \in QueriesMessage}
        \cup {[method |-> "GET", path |-> p, query |-> NoQuery, segment |-> StrV(<<>>),
               body |-> NoBody] : p \in Paths}
        \cup {[method |-> m, path |-> p, query |-> NoQuery, segment |-> StrV(s),
               body |-> NoBody] :
                m \in Methods, p \in IntegerRoutes, s \in Segments}
        \cup {[method |-> "POST", path |-> "/api/echo", query |-> q,
               segment |-> StrV(<<>>), body |-> b] :
                q \in {NoQuery, [NoQuery EXCEPT !.message = StrV(<<"0">>)]},
                b \in Bodies}
        \cup {[method |-> m, path |-> p, query |-> q, segment |-> StrV(<<>>),
               body |-> NoBody] :
                m \in {"POST", "DELETE"},
                p \in Paths,
                q \in {NoQuery,
                       [NoQuery EXCEPT !.a = StrV(<<"1">>), !.b = StrV(<<"1">>)],
                       [NoQuery EXCEPT !.n = StrV(<<"1">>)],
                       [NoQuery EXCEPT !.message = StrV(<<"1">>)]}}

Init ==
    /\ \E c \in Clients :
        /\ method = c.method
        /\ path = c.path
        /\ query = c.query
        /\ segment = c.segment
        /\ content = c.body
    /\ now = 0
    /\ request = NoRequest
    /\ response = NoResponse
    /\ trace = <<>>
    /\ previous = 0
    /\ operands = <<NoneV, NoneV>>
    /\ call = NoCall
    /\ outcome = NoOutcome

\* An application that, once it has answered with an error, goes on giving
\* that answer to the requests that follow.
Serve_sticky(route, answer) ==
    /\ path = route
    /\ request' = [route |-> route, method |-> method, args |-> query,
                   segment |-> segment, body |-> content]
    /\ response' = IF response.status >= 400 THEN response ELSE answer.response
    /\ trace' = answer.trace
    /\ UNCHANGED <<method, path, query, segment, content, now, previous,
                   operands, call, outcome>>

Serve(route, answer) ==
    /\ path = route
    /\ request' = [route |-> route, method |-> method, args |-> query,
                   segment |-> segment, body |-> content]
    /\ response' = answer.response
    /\ trace' = answer.trace
    /\ UNCHANGED <<method, path, query, segment, content, now, previous,
                   operands, call, outcome>>

\* Routing: a path no rule matches is answered by the 404 handler, a path a
\* rule matches with a method the rule does not name by the 405 handler.
Route(route, methods, answer) ==
    Serve(route, IF method \in methods THEN answer ELSE method_not_allowed)

\* The same for a rule ending in <int:n>, which matches only a path whose
\* last segment the converter matches.
RouteInt(route, methods, answer) ==
    Serve(route,
          IF ~IntegerConverterMatches(segment) THEN not_found
          ELSE IF method \notin methods THEN method_not_allowed
          ELSE answer)

GetRoot == Route("/", {"GET"}, health_check)
GetHealth == Route("/api/health", {"GET"}, detailed_health_check)
GetInfo == Route("/api/info", {"GET"}, app_info)
GetAdd == Route("/api/add", {"GET"}, add(query))
GetSubtract == Route("/api/subtract", {"GET"}, subtract(query))
GetMultiply == Route("/api/multiply", {"GET"}, multiply(query))
GetDivide == Route("/api/divide", {"GET"}, divide(query))
GetSquare == Route("/api/square", {"GET"}, square_endpoint(query))
GetAbs == Route("/api/abs", {"GET"}, absolute_endpoint(query))
GetParity ==
    RouteInt("/api/parity/<int:n>", {"GET"}, parity_endpoint(IntegerConverter(segment)))
GetOddEven ==
    RouteInt("/api/odd_even/<int:n>", {"GET"}, odd_even_endpoint(IntegerConverter(segment)))
Echo ==
    \E parsed \in (IF method = "POST" THEN get_json(content) ELSE {Return(NoneV)}) :
        Route("/api/echo", {"GET", "POST"}, echo(method, query, parsed))
\* A path the application has no route for.
GetUnknown == Serve("/api/nonexistent", not_found)

\* Time passes between requests.
Tick ==
    /\ now < MaxClock
    /\ now' = now + 1
    /\ UNCHANGED <<method, path, query, segment, content, request, response, trace,
                   previous, operands, call, outcome>>

Next ==
    \/ GetRoot
    \/ GetHealth
    \/ GetInfo
    \/ GetAdd
    \/ GetSubtract
    \/ GetMultiply
    \/ GetDivide
    \/ GetSquare
    \/ GetAbs
    \/ GetParity
    \/ GetOddEven
    \/ Echo
    \/ GetUnknown
    \/ Tick

Spec == Init /\ [][Next]_vars

----------------------------------------------------------------------------
(* A session: the client sends one request after another to the same      *)
(* application, as the integration tests do.                               *)

Req(m, p, q, seg, b) ==
    [method |-> m, path |-> p, query |-> q, segment |-> StrV(seg), body |-> b]
QueryAB(x, y) == [NoQuery EXCEPT !.a = StrV(x), !.b = StrV(y)]
QueryN(x) == [NoQuery EXCEPT !.n = StrV(x)]
JsonContent(v) == [mimetype |-> "application/json", parses |-> TRUE, json |-> v]

\* The requests of a session: every path, with requests that succeed and
\* requests that fail in each of the ways the application fails.
SessionClients ==
    {Req("GET", "/", NoQuery, <<>>, NoBody),
     Req("GET", "/api/health", NoQuery, <<>>, NoBody),
     Req("DELETE", "/api/health", NoQuery, <<>>, NoBody),
     Req("GET", "/api/info", NoQuery, <<>>, NoBody),
     Req("GET", "/api/add", QueryAB(<<"1">>, <<"1", "0">>), <<>>, NoBody),
     Req("GET", "/api/add", QueryAB(<<".">>, <<"1">>), <<>>, NoBody),
     Req("POST", "/api/add", QueryAB(<<"1">>, <<"1">>), <<>>, NoBody),
     Req("GET", "/api/subtract", QueryAB(<<"1">>, <<"1", "1">>), <<>>, NoBody),
     Req("GET", "/api/multiply", [NoQuery EXCEPT !.a = StrV(<<"1">>)], <<>>, NoBody),
     Req("GET", "/api/divide", QueryAB(<<"1">>, <<"0">>), <<>>, NoBody),
     Req("GET", "/api/divide", QueryAB(<<"1", "1">>, <<"1">>), <<>>, NoBody),
     Req("GET", "/api/square", QueryN(<<"-", "1">>), <<>>, NoBody),
     Req("GET", "/api/abs", QueryN(<<>>), <<>>, NoBody),
     Req("GET", "/api/parity/<int:n>", NoQuery, <<"3">>, NoBody),
     Req("GET", "/api/parity/<int:n>", NoQuery, <<"-", "4">>, NoBody),
     Req("GET", "/api/odd_even/<int:n>", NoQuery, <<"4">>, NoBody),
     Req("GET", "/api/echo", [NoQuery EXCEPT !.message = StrV(<<"1">>)], <<>>, NoBody),
     Req("POST", "/api/echo", NoQuery, <<>>, JsonContent(DictV(StrV(<<"0">>), Absent))),
     Req("POST", "/api/echo", NoQuery, <<>>, JsonContent(ListV(<<IntV(1)>>))),
     Req("POST", "/api/echo", NoQuery, <<>>,
         [mimetype |-> "application/json", parses |-> FALSE, json |-> NoneV]),
     Req("GET", "/api/nonexistent", NoQuery, <<>>, NoBody)}

SessionInit ==
    /\ \E c \in SessionClients :
        /\ method = c.method
        /\ path = c.path
        /\ query = c.query
        /\ segment = c.segment
        /\ content = c.body
    /\ now = 0
    /\ request = NoRequest
    /\ response = NoResponse
    /\ trace = <<>>
    /\ previous = 0
    /\ operands = <<NoneV, NoneV>>
    /\ call = NoCall
    /\ outcome = NoOutcome

\* The client turns to its next request, having seen the last response.
NewRequest ==
    /\ request # NoRequest
    /\ \E c \in SessionClients :
        /\ method' = c.method
        /\ path' = c.path
        /\ query' = c.query
        /\ segment' = c.segment
        /\ content' = c.body
    /\ previous' = response.status
    /\ UNCHANGED <<now, request, response, trace, operands, call, outcome>>

SessionNext ==
    \/ NewRequest
    \/ Next

SessionSpec == SessionInit /\ [][SessionNext]_vars


----------------------------------------------------------------------------
(* The list operation of the operation layer: sort_list of                 *)
(* backend/app/utils.py, called directly.                                  *)

TupleV(items) == [tag |-> "tuple", elems |-> items]

\* x < y for numbers: bool counts as int, an int and a float compare by
\* value, and every comparison with nan is false.
PyLt(x, y) ==
    IF IsNaN(x) \/ IsNaN(y) THEN FALSE
    ELSE LET xn == IF x.tag = "float" THEN x.num ELSE AsInt(x)
             xd == IF x.tag = "float" THEN x.den ELSE 1
             yn == IF y.tag = "float" THEN y.num ELSE AsInt(y)
             yd == IF y.tag = "float" THEN y.den ELSE 1
         IN  IF xd = 0 /\ yd = 0 THEN xn < yn
             ELSE IF xd = 0 THEN xn < 0
             ELSE IF yd = 0 THEN yn > 0
             ELSE xn * yd < yn * xd

RECURSIVE Reversed(_)
Reversed(s) == IF s = <<>> THEN <<>> ELSE Append(Reversed(Tail(s)), Head(s))

\* list.sort of CPython for the short lists of the model (fewer than 64
\* elements: one run, then binary insertion).  count_run: the length of the
\* run the list starts with, non-descending or strictly descending.
RECURSIVE RunLength(_, _, _)
RunLength(s, n, descending) ==
    IF n = Len(s) THEN n
    ELSE IF PyLt(s[n + 1], s[n]) = descending THEN RunLength(s, n + 1, descending)
    ELSE n

count_run(s) ==
    LET descending == PyLt(s[2], s[1])
    IN  [n |-> RunLength(s, 2, descending), descending |-> descending]

\* binarysort: the place of pivot in the sorted s[l..r-1], behind its equals.
RECURSIVE BinarySearch(_, _, _, _)
BinarySearch(s, pivot, l, r) ==
    IF l >= r THEN l
    ELSE LET q == l + ((r - l) \div 2)
         IN  IF PyLt(pivot, s[q]) THEN BinarySearch(s, pivot, l, q)
             ELSE BinarySearch(s, pivot, q + 1, r)

\* binarysort: s[1..start-1] is sorted; the elements from start on are
\* inserted one after another.
RECURSIVE binarysort(_, _)
binarysort(s, start) ==
    IF start > Len(s) THEN s
    ELSE LET pivot == s[start]
             l == BinarySearch(s, pivot, 1, start)
         IN  binarysort(SubSeq(s, 1, l - 1) \o <<pivot>> \o SubSeq(s, l, start - 1)
                            \o SubSeq(s, start + 1, Len(s)),
                        start + 1)

listsort(s) ==
    IF Len(s) < 2 THEN s
    ELSE LET run == count_run(s)
             s1 == IF run.descending
                   THEN Reversed(SubSeq(s, 1, run.n)) \o SubSeq(s, run.n + 1, Len(s))
                   ELSE s
         IN  binarysort(s1, run.n + 1)

\* sorted(items, reverse=reverse): a new list; for reverse the list is
\* reversed before and after sorting, which keeps equals in their order.
sorted(items, reverse) ==
    IF reverse THEN Reversed(listsort(Reversed(items))) ELSE listsort(items)

\* The value a call returns is an object made by the call.
ReturnNew(v) == [kind |-> "return", value |-> v, new |-> TRUE]

\* sort_list sorting in place: numbers.sort(reverse=reverse); return numbers.
sort_list_in_place(numbers, reverse) ==
    IF ~isinstance(numbers, {"list"})
    THEN [outcome |-> Raise("ValueError", "Input must be a list"), numbers |-> numbers]
    ELSE IF ~(\A i \in 1..Len(numbers.elems) : isinstance(numbers.elems[i], NumberTypes))
    THEN [outcome |-> Raise("ValueError", "List must contain only numbers"),
          numbers |-> numbers]
    ELSE LET result == ListV(sorted(numbers.elems, reverse.v))
         IN  [outcome |-> [kind |-> "return", value |-> result, new |-> FALSE],
              numbers |-> result]

\* sort_list(numbers, reverse): the outcome of the call, and the caller's
\* object numbers as the call leaves it.
sort_list(numbers, reverse) ==
    IF ~isinstance(numbers, {"list"})
    THEN [outcome |-> Raise("ValueError", "Input must be a list"), numbers |-> numbers]
    ELSE IF ~(\A i \in 1..Len(numbers.elems) : isinstance(numbers.elems[i], NumberTypes))
    THEN [outcome |-> Raise("ValueError", "List must contain only numbers"),
          numbers |-> numbers]
    ELSE [outcome |-> ReturnNew(ListV(sorted(numbers.elems, reverse.v))),
          numbers |-> numbers]

\* The elements of the lists passed: numbers of the three kinds, equal ones
\* of different types among them, nan and an infinity, and two values that
\* are no numbers.
ListElements ==
    {IntV(-1), IntV(1), IntV(2), BoolV(TRUE), BoolV(FALSE), FloatV(1, 1),
     FloatV(3, 2), NegInf, NaN, NoneV, StrV(<<"5">>)}
\* Arguments that are no lists.
OtherArguments ==
    {NoneV, StrV(<<"5">>), IntV(1), TupleV(<<IntV(2), IntV(1)>>)}

\* The caller's list, of up to MaxItems elements, or another object, and
\* the flag reverse are drawn at the start.
ListInit ==
    /\ \/ \E k \in 0..MaxItems : \E items \in [1..k -> ListElements] :
              \E reverse \in BoolOperands : operands = <<ListV(items), reverse>>
       \/ operands \in OtherArguments \X BoolOperands
    /\ call = NoCall
    /\ outcome = NoOutcome
    /\ method = "GET"
    /\ path = "/"
    /\ query = NoQuery
    /\ segment = StrV(<<>>)
    /\ content = NoBody
    /\ now = 0
    /\ request = NoRequest
    /\ response = NoResponse
    /\ trace = <<>>
    /\ previous = 0

\* One call of sort_list with the caller's list and flag; the caller goes
\* on holding the list as the call leaves it.
CallSortList ==
    /\ LET r == sort_list(operands[1], operands[2])
       IN  /\ call' = [fn |-> "sort_list", args |-> operands]
           /\ outcome' = r.outcome
           /\ operands' = <<r.numbers, operands[2]>>
    /\ UNCHANGED <<method, path, query, segment, content, now, request, response,
                   trace, previous>>

ListNext == CallSortList

ListSpec == ListInit /\ [][ListNext]_vars

----------------------------------------------------------------------------
(* Properties of the HTTP layer, checked under Spec.                       *)

OperationSteps ==
    {"add_numbers", "subtract_numbers", "multiply_numbers", "divide_numbers",
     "square", "absolute_value", "is_even", "is_odd", "even_parity"}

Served == request # NoRequest
ServedGet == Served /\ request.method = "GET"
Present(x) == x # NoneV
\* The parameter value is present and int() converts it.
Parses(x) == Present(x) /\ py_int(x).kind = "return"
Parsed(x) == py_int(x).value.v
InTrace(step) == \E i \in 1..Len(trace) : trace[i] = step

C2_MissingParameterRejected ==
    /\ (/\ ServedGet
        /\ request.route \in TwoOperandRoutes
        /\ (~Present(request.args.a) \/ ~Present(request.args.b)))
       => /\ response.status = 400
          /\ response.body = [error |-> MsgRequiredAB]
          /\ \A step \in OperationSteps : ~InTrace(step)
    /\ (/\ ServedGet
        /\ request.route \in OneOperandRoutes
        /\ ~Present(request.args.n))
       => /\ response.status = 400
          /\ response.body = [error |-> MsgRequiredN]
          /\ \A step \in OperationSteps : ~InTrace(step)

\* /api/add?a=1 (no b) has been answered with the "required" error.
C2_Witness ==
    /\ ServedGet
    /\ request.route = "/api/add"
    /\ request.args.a = StrV(<<"1">>)
    /\ request.args.b = NoneV
    /\ response.status = 400
    /\ response.body.error = MsgRequiredAB

\* C3: when every required parameter is present but at least one does not
\* parse as an integer, the two-operand endpoints answer 400 "Parameters must
\* be valid integers" and /api/square and /api/abs answer 400 "Parameter must
\* be a valid integer", whichever operand is the invalid one.
C3_NonIntegerRejected ==
    /\ (/\ ServedGet
        /\ request.route \in TwoOperandRoutes
        /\ Present(request.args.a)
        /\ Present(request.args.b)
        /\ (~Parses(request.args.a) \/ ~Parses(request.args.b)))
       => /\ response.status = 400
          /\ response.body = [error |-> MsgValidIntegers]
    /\ (/\ ServedGet
        /\ request.route \in OneOperandRoutes
        /\ Present(request.args.n)
        /\ ~Parses(request.args.n))
       => /\ response.status = 400
          /\ response.body = [error |-> MsgValidInteger]

\* /api/multiply?a=1&b=1. (a valid, b not an integer) has been rejected.
C3_Witness ==
    /\ ServedGet
    /\ request.route = "/api/multiply"
    /\ request.args.a = StrV(<<"1">>)
    /\ request.args.b = StrV(<<"1", ".">>)
    /\ response.status = 400
    /\ response.body.error = MsgValidIntegers

\* C4: /api/divide with a and b both present and integer answers 400
\* "Division by zero is not allowed" if and only if b is 0; for every other
\* integer b it answers 200 with operation 'divide', a and b echoed, and
\* result = a / b.
C4_DivideByZeroIffZero ==
    (/\ ServedGet
     /\ request.route = "/api/divide"
     /\ Parses(request.args.a)
     /\ Parses(request.args.b))
    => LET a == Parsed(request.args.a)
           b == Parsed(request.args.b)
           body == response.body
       IN  /\ (response.status = 400 /\ body = [error |-> MsgDivisionByZero]) <=> (b = 0)
           /\ b # 0 =>
                  /\ response.status = 200
                  /\ {"operation", "a", "b", "result"} \subseteq DOMAIN body
                  /\ body.operation = "divide"
                  /\ body.a = IntV(a)
                  /\ body.b = IntV(b)
                  /\ IsFinite(body.result)
                  /\ body.result.num * b = a * body.result.den

\* C5: in /api/divide the presence check comes first, then the conversion
\* of a and of b, then the zero check: the division-by-zero answer is given
\* only after both operands converted, and a request with b = 0 and a
\* non-integer a gets the "valid integers" answer.
C5_ZeroCheckAfterCoercion ==
    (ServedGet /\ request.route = "/api/divide")
    => /\ ("error" \in DOMAIN response.body /\ response.body.error = MsgDivisionByZero)
          => /\ Parses(request.args.a)
             /\ Parses(request.args.b)
             /\ trace = <<"args.get", "int(a)", "int(b)", "divide_numbers",
                          "except ZeroDivisionError">>
       /\ (/\ Present(request.args.a)
           /\ Present(request.args.b)
           /\ ~Parses(request.args.a))
          => /\ response.body = [error |-> MsgValidIntegers]
             /\ ~InTrace("divide_numbers")
       /\ InTrace("divide_numbers")
          => SubSeq(trace, 1, 4) = <<"args.get", "int(a)", "int(b)", "divide_numbers">>

\* /api/divide?a=.&b=0 has been answered with the "valid integers" error.
C5_Witness ==
    /\ ServedGet
    /\ request.route = "/api/divide"
    /\ request.args.a = StrV(<<".">>)
    /\ request.args.b = StrV(<<"0">>)
    /\ response.status = 400
    /\ response.body.error = MsgValidIntegers

\* C11: absolute_value(n) of an integer n is an integer >= 0 and equals
\* absolute_value(-n); and GET /api/abs?n=<n> with an integer n answers 200
\* with that value as result: it is >= 0 and the same for n and for -n.
C11_AbsNonNegativeAndEven ==
    /\ \A k \in -MaxInt..MaxInt :
        LET r == absolute_value(IntV(k))
        IN  /\ r.kind = "return"
            /\ r.value.tag = "int"
            /\ r.value.v >= 0
            /\ r = absolute_value(IntV(-k))
    /\ (/\ ServedGet
        /\ request.route = "/api/abs"
        /\ Parses(request.args.n))
       => LET n == Parsed(request.args.n)
              body == response.body
          IN  /\ response.status = 200
              /\ "result" \in DOMAIN body
              /\ body.result.tag = "int"
              /\ body.result.v >= 0
              /\ Return(body.result) = absolute_value(IntV(n))
              /\ Return(body.result) = absolute_value(IntV(-n))

\* /api/abs?n=-1 has been answered with result 1.
C11_Witness ==
    /\ ServedGet
    /\ request.route = "/api/abs"
    /\ request.args.n = StrV(<<"-", "1">>)
    /\ response.status = 200
    /\ response.body.result = IntV(1)

\* The path segment is the literal of a non-negative integer: digits only.
NaturalLiteral(seg) == seg.s # <<>> /\ \A i \in 1..Len(seg.s) : seg.s[i] \in DigitChars

\* C12: GET /api/parity/<n> with a non-negative integer n answers 200 with
\* input = n, is_even = (2 divides n), is_odd = not is_even, and parity =
\* "even" exactly when is_even and "odd" otherwise: the parity of the number,
\* not of its count of 1 bits (3 is odd, 4 is even).
C12_ParityOfTheNumber ==
    (/\ ServedGet
     /\ request.route = "/api/parity/<int:n>"
     /\ NaturalLiteral(request.segment))
    => LET n == Decimal(request.segment.s)
           body == response.body
       IN  /\ response.status = 200
           /\ {"input", "is_even", "is_odd", "parity"} \subseteq DOMAIN body
           /\ body.input = IntV(n)
           /\ body.is_even = BoolV(n % 2 = 0)
           /\ body.is_odd = BoolV(n % 2 # 0)
           /\ body.parity = (IF n % 2 = 0 THEN "even" ELSE "odd")
           /\ n = 3 => body.parity = "odd"
           /\ n = 4 => body.parity = "even"

\* /api/parity/3 has been answered "odd" (3 has an even count of 1 bits).
C12_Witness ==
    /\ ServedGet
    /\ request.route = "/api/parity/<int:n>"
    /\ request.segment = StrV(<<"3">>)
    /\ even_parity(IntV(3)) = Return(BoolV(TRUE))
    /\ response.status = 200
    /\ response.body.parity = "odd"
    /\ response.body.is_even = BoolV(FALSE)

\* C13: a request to /api/parity/<x> or /api/odd_even/<x> whose segment x is
\* not the literal of a non-negative integer (it has a sign or a character
\* that is no digit, or is empty) gets the route-not-found answer, 404,
\* whatever its method is; no handler runs, so it gets neither 200 nor a 400
\* validation error.
C13_NonNaturalSegmentNotFound ==
    (/\ Served
     /\ request.route \in IntegerRoutes
     /\ ~NaturalLiteral(request.segment))
    => /\ response.status = 404
       /\ response.status \notin {200, 400}
       /\ response.body.error = "Endpoint not found"
       /\ trace = <<"errorhandler(404)">>
       /\ \A step \in OperationSteps : ~InTrace(step)

\* /api/parity/-4 has been answered 404.
C13_Witness ==
    /\ ServedGet
    /\ request.route = "/api/parity/<int:n>"
    /\ request.segment = StrV(<<"-", "4">>)
    /\ response.status = 404

\* The methods each route names.
AllowedMethods(route) == IF route = "/api/echo" THEN {"GET", "POST"} ELSE {"GET"}
\* The path of the request matches a route of the application.
Matched ==
    /\ request.route # "/api/nonexistent"
    /\ request.route \in IntegerRoutes => NaturalLiteral(request.segment)
\* The response is the JSON error envelope with the given status code.
Envelope(code) ==
    /\ response.status = code
    /\ response.mimetype = "application/json"
    /\ DOMAIN response.body = {"error", "status", "message", "timestamp"}
    /\ response.body.status = code
\* The JSON values Python takes as false: null, false, 0, "", [] and {}.
FalseJson(v) ==
    v \in {NoneV, BoolV(FALSE), IntV(0), StrV(<<>>), ListV(<<>>), DictV(Absent, Absent)}
\* Requests whose handler lets an exception escape: a division of integers
\* whose quotient is beyond the float range, and a POST to /api/echo whose
\* JSON body is a non-empty value other than an object.
Faults ==
    \/ /\ request.method = "GET"
       /\ request.route = "/api/divide"
       /\ Parses(request.args.a)
       /\ Parses(request.args.b)
       /\ Parsed(request.args.b) # 0
       /\ Abs(Parsed(request.args.a)) > FloatMax * Abs(Parsed(request.args.b))
    \/ /\ request.method = "POST"
       /\ request.route = "/api/echo"
       /\ request.body.mimetype = "application/json"
       /\ request.body.parses
       /\ ~FalseJson(request.body.json)
       /\ request.body.json.tag # "dict"

\* C14: a request to a path no route matches, a request with a method its
\* route does not allow, and a request whose handler lets an exception
\* escape are answered 404, 405 and 500 respectively, each with a JSON body
\* of exactly the keys error, status, message, timestamp whose status is
\* the HTTP status code.
C14_ErrorEnvelopes ==
    Served =>
        /\ ~Matched => Envelope(404)
        /\ (Matched /\ request.method \notin AllowedMethods(request.route)) => Envelope(405)
        /\ Faults => Envelope(500)
        /\ InTrace("errorhandler(500)") => Envelope(500)
        /\ response.status \in {404, 405, 500} => Envelope(response.status)

\* POST /api/echo with the JSON body [1] has been answered 500 with the
\* envelope of the 500 handler.
C14_Witness ==
    /\ Served
    /\ request.method = "POST"
    /\ request.route = "/api/echo"
    /\ request.body.mimetype = "application/json"
    /\ request.body.parses
    /\ request.body.json = ListV(<<IntV(1)>>)
    /\ response.status = 500
    /\ response.body.status = 500
    /\ response.body.error = "Internal server error"

\* C15: every response of the service, on every route, with every method,
\* for success and for error, has the content type application/json.
C15_EveryResponseIsJson ==
    Served => response.mimetype = "application/json"

\* A request to /api/echo with one of the two methods the route names.
ServedEcho(m) == Served /\ request.route = "/api/echo" /\ request.method = m
\* The body of the request is a JSON document sent as application/json.
JsonBody == request.body.mimetype = "application/json" /\ request.body.parses
\* The response is the 200 answer of echo carrying the given message.
Echoed(message) ==
    /\ response.status = 200
    /\ response.mimetype = "application/json"
    /\ DOMAIN response.body = {"operation", "message", "timestamp"}
    /\ response.body.operation = "echo"
    /\ response.body.message = message

\* C16: every GET and every POST request to /api/echo is answered 200 with
\* the echoed message: the endpoint has no error response, whatever the
\* query string and the request body are.
C16_EchoNeverFails ==
    (ServedEcho("GET") \/ ServedEcho("POST"))
    => /\ response.status = 200
       /\ "message" \in DOMAIN response.body

\* C16, amended: every GET request to /api/echo is answered 200 with the
\* echoed message.  A POST request is answered 200 with the echoed message
\* when its body is JSON holding an object or a false value (null, false,
\* 0, "", [], {}); it is answered 400 when the body sent as JSON is not
\* valid JSON, 500 when it holds a true JSON value other than an object,
\* and 415 (or, by Flask before 2.1, 200 with the empty message) when its
\* content type is not JSON.
C16_EchoFailsOnlyOnPostBody ==
    /\ ServedEcho("GET") => response.status = 200 /\ "message" \in DOMAIN response.body
    /\ ServedEcho("POST") =>
        LET b == request.body
        IN  /\ (JsonBody /\ (b.json.tag = "dict" \/ FalseJson(b.json)))
               => response.status = 200 /\ "message" \in DOMAIN response.body
            /\ (b.mimetype = "application/json" /\ ~b.parses) => response.status = 400
            /\ (JsonBody /\ b.json.tag # "dict" /\ ~FalseJson(b.json)) => response.status = 500
            /\ b.mimetype # "application/json"
               => \/ response.status = 415
                  \/ Echoed(StrV(<<>>))

\* POST /api/echo with the JSON body [] has been answered 200 with the
\* empty message.
C16_Witness ==
    /\ ServedEcho("POST")
    /\ JsonBody
    /\ request.body.json = ListV(<<>>)
    /\ Echoed(StrV(<<>>))

\* C17: the message of the answer of /api/echo is the message of the
\* request, unchanged: on GET the value of the 'message' query parameter, on
\* POST the value of the 'message' field of the JSON object of the body,
\* whose other fields are not echoed and whose query string is not read.
C17_EchoUnchanged ==
    /\ (ServedEcho("GET") /\ Present(request.args.message))
       => Echoed(request.args.message)
    /\ (/\ ServedEcho("POST")
        /\ JsonBody
        /\ request.body.json.tag = "dict"
        /\ request.body.json.message # Absent)
       => Echoed(request.body.json.message)

\* POST /api/echo?message=0 with the body {"message": "1.", "other": 1} has
\* been answered with the message "1.".
C17_Witness ==
    /\ ServedEcho("POST")
    /\ request.args.message = StrV(<<"0">>)
    /\ JsonBody
    /\ request.body.json = DictV(StrV(<<"1", ".">>), IntV(1))
    /\ Echoed(StrV(<<"1", ".">>))

\* C18: when no message is supplied to /api/echo (GET without the 'message'
\* query parameter; POST whose JSON body is an object without a 'message'
\* field, the empty object, or null) the answer is 200 with the empty
\* string as message.
C18_EchoDefaultsToEmpty ==
    /\ (ServedEcho("GET") /\ ~Present(request.args.message))
       => Echoed(StrV(<<>>))
    /\ (/\ ServedEcho("POST")
        /\ JsonBody
        /\ \/ request.body.json = NoneV
           \/ /\ request.body.json.tag = "dict"
              /\ request.body.json.message = Absent)
       => Echoed(StrV(<<>>))

\* POST /api/echo with the body {"other": 1} has been answered 200 with the
\* empty message.
C18_Witness ==
    /\ ServedEcho("POST")
    /\ JsonBody
    /\ request.body.json = DictV(Absent, IntV(1))
    /\ Echoed(StrV(<<>>))

\* The routes of the operation endpoints.
OperationRoutes ==
    TwoOperandRoutes \cup OneOperandRoutes \cup IntegerRoutes \cup {"/api/echo"}
\* The keys under which the 200 body of a route echoes the inputs.
InputKeys(route) ==
    IF route \in TwoOperandRoutes THEN {"a", "b"}
    ELSE IF route = "/api/echo" THEN {"message"}
    ELSE {"input"}
\* An operation endpoint has answered 200.
OperationSucceeded ==
    /\ Served
    /\ request.route \in OperationRoutes
    /\ response.status = 200

\* C19: every 200 response of an operation endpoint (add, subtract,
\* multiply, divide, square, abs, parity, odd_even, echo) has a JSON body
\* with the keys operation, the echoed inputs, result and timestamp.
C19_SuccessBodyHasResult ==
    OperationSucceeded
    => /\ response.mimetype = "application/json"
       /\ {"operation", "result", "timestamp"} \subseteq DOMAIN response.body
       /\ InputKeys(request.route) \subseteq DOMAIN response.body

\* C19, amended: every 200 response of an operation endpoint has a JSON body
\* with the keys operation, the echoed inputs and timestamp.  The bodies of
\* add, subtract, multiply, divide, square and abs have the key result
\* besides; parity has is_even, is_odd and parity, odd_even has is_even,
\* is_odd and status, and echo has its message only: these three have no
\* result key.
C19_SuccessBodyKeys ==
    OperationSucceeded
    => LET keys == DOMAIN response.body
           common == {"operation", "timestamp"} \cup InputKeys(request.route)
       IN  /\ response.mimetype = "application/json"
           /\ request.route \in TwoOperandRoutes \cup OneOperandRoutes
              => keys = common \cup {"result"}
           /\ request.route = "/api/parity/<int:n>"
              => keys = common \cup {"is_even", "is_odd", "parity"}
           /\ request.route = "/api/odd_even/<int:n>"
              => keys = common \cup {"is_even", "is_odd", "status"}
           /\ request.route = "/api/echo" => keys = common

\* /api/odd_even/4 has been answered 200 with a body that has a status key
\* and no result key.
C19_Witness ==
    /\ OperationSucceeded
    /\ request.route = "/api/odd_even/<int:n>"
    /\ request.segment = StrV(<<"4">>)
    /\ response.body.status = "even"
    /\ "result" \notin DOMAIN response.body

\* C20: every 200 response has a timestamp in its body, and every response
\* with a status of 400 or more has an error field, a string, in its body.
C20_TimestampOrError ==
    Served
    => /\ response.status = 200 => "timestamp" \in DOMAIN response.body
       /\ response.status >= 400
          => /\ response.mimetype = "application/json"
             /\ "error" \in DOMAIN response.body
             /\ response.body.error \in STRING

----------------------------------------------------------------------------
(* Properties of the operation layer, checked under OpsSpec.               *)

Called(fn) == call.fn = fn
Numeric(x) == x.tag \in {"int", "float"}
Returned == outcome.kind = "return"
Raised(exc) == outcome.kind = "raise" /\ outcome.exc = exc

\* x == y in Python, for numbers: nan equals nothing, itself included.
PyEq(x, y) ==
    IF IsNaN(x) \/ IsNaN(y) THEN FALSE
    ELSE IF x.tag = "float" /\ y.tag = "float" THEN x = y
    ELSE IF x.tag = "float" THEN x.den = 1 /\ x.num = AsInt(y)
    ELSE IF y.tag = "float" THEN y.den = 1 /\ y.num = AsInt(x)
    ELSE AsInt(x) = AsInt(y)

\* C6: divide_numbers(a, b) raises ZeroDivisionError if and only if b == 0;
\* for every other pair of numeric operands it returns a float.
C6_DivideNumbersRaisesIffZero ==
    (/\ Called("divide_numbers")
     /\ Numeric(call.args[1])
     /\ Numeric(call.args[2]))
    => /\ Raised("ZeroDivisionError") <=> EqualsZero(call.args[2])
       /\ ~EqualsZero(call.args[2]) => Returned /\ outcome.value.tag = "float"

\* C7: every operation function rejects a boolean operand with ValueError, in
\* whichever position it stands, and returns nothing.
C7_BooleanOperandRejected ==
    (call # NoCall /\ \E i \in 1..Len(call.args) : call.args[i].tag = "bool")
    => Raised("ValueError")

\* multiply_numbers(5, True), the boolean second, has raised ValueError.
C7_Witness ==
    /\ Called("multiply_numbers")
    /\ call.args = <<IntV(5), BoolV(TRUE)>>
    /\ Raised("ValueError")

\* C8: for all integers a and b, subtract_numbers(add_numbers(a, b), b) == a.
C8_AddSubtractRoundTrip ==
    (/\ Called("add_numbers")
     /\ call.args[1].tag = "int"
     /\ call.args[2].tag = "int")
    => /\ Returned
       /\ LET back == subtract_numbers(outcome.value, call.args[2])
          IN  back.kind = "return" /\ PyEq(back.value, call.args[1])

\* add_numbers(7, -3) has returned 4.
C8_Witness ==
    /\ Called("add_numbers")
    /\ call.args = <<IntV(7), IntV(-3)>>
    /\ outcome = Return(IntV(4))

\* C9: for every integer n, negative, zero or positive, exactly one of
\* is_even(n) and is_odd(n) is true, and is_even(n) is true exactly when n is
\* divisible by 2.
C9_EvenXorOdd ==
    ((Called("is_even") \/ Called("is_odd")) /\ call.args[1].tag = "int")
    => LET n == call.args[1]
           even == is_even(n)
           odd == is_odd(n)
       IN  /\ outcome = (IF Called("is_even") THEN even ELSE odd)
           /\ even.kind = "return" /\ even.value.tag = "bool"
           /\ odd.kind = "return" /\ odd.value.tag = "bool"
           /\ even.value.v # odd.value.v
           /\ even.value.v <=> (\E k \in -MaxInt..MaxInt : n.v = 2 * k)

\* is_odd(-3) has returned True.
C9_Witness ==
    /\ Called("is_odd")
    /\ call.args = <<IntV(-3)>>
    /\ outcome = Return(BoolV(TRUE))

\* C10 as stated: for every numeric n, square(n) == multiply_numbers(n, n),
\* and both functions accept and reject exactly the same inputs.
C10_SquareEqualsMultiply ==
    Called("square")
    => LET n == call.args[1]
           product == multiply_numbers(n, n)
       IN  /\ Returned <=> product.kind = "return"
           /\ Numeric(n) => /\ Returned
                            /\ product.kind = "return"
                            /\ PyEq(outcome.value, product.value)

\* C10 amended: for every numeric n other than nan, square(n) ==
\* multiply_numbers(n, n); for nan both return nan; both functions accept and
\* reject exactly the same inputs.
C10_SquareEqualsMultiplyExceptNaN ==
    Called("square")
    => LET n == call.args[1]
           product == multiply_numbers(n, n)
       IN  /\ Returned <=> product.kind = "return"
           /\ Numeric(n) => /\ Returned
                            /\ product.kind = "return"
                            /\ IF IsNaN(n)
                               THEN IsNaN(outcome.value) /\ IsNaN(product.value)
                               ELSE PyEq(outcome.value, product.value)

\* square(1.5) has returned 2.25.
C10_Witness ==
    /\ Called("square")
    /\ call.args = <<FloatV(3, 2)>>
    /\ outcome = Return(FloatV(9, 4))
----------------------------------------------------------------------------
(* Properties of sessions, checked under SessionSpec.                      *)

\* The answers the application gives to request r when r is the first
\* request it gets (more than one where the answer depends on the release
\* of Flask installed).
FirstAnswers(r) ==
    IF r.route = "/api/nonexistent" THEN {not_found}
    ELSE IF r.route \in IntegerRoutes /\ ~NaturalLiteral(r.segment) THEN {not_found}
    ELSE IF r.method \notin AllowedMethods(r.route) THEN {method_not_allowed}
    ELSE CASE r.route = "/" -> {health_check}
           [] r.route = "/api/health" -> {detailed_health_check}
           [] r.route = "/api/info" -> {app_info}
           [] r.route = "/api/add" -> {add(r.args)}
           [] r.route = "/api/subtract" -> {subtract(r.args)}
           [] r.route = "/api/multiply" -> {multiply(r.args)}
           [] r.route = "/api/divide" -> {divide(r.args)}
           [] r.route = "/api/square" -> {square_endpoint(r.args)}
           [] r.route = "/api/abs" -> {absolute_endpoint(r.args)}
           [] r.route = "/api/parity/<int:n>" ->
                  {parity_endpoint(IntV(Decimal(r.segment.s)))}
           [] r.route = "/api/odd_even/<int:n>" ->
                  {odd_even_endpoint(IntV(Decimal(r.segment.s)))}
           [] r.route = "/api/echo" ->
                  IF r.method = "GET" THEN {echo("GET", r.args, Return(NoneV))}
                  ELSE {echo("POST", r.args, parsed) : parsed \in get_json(r.body)}

\* A response without the timestamp of its body.
Untimed(resp) ==
    [status |-> resp.status, mimetype |-> resp.mimetype,
     body |-> [k \in DOMAIN resp.body \ {"timestamp"} |-> resp.body[k]]]

\* C21: the service is stateless across requests: in every sequence of
\* requests the status and the body (timestamp aside) of the response to a
\* request are those the same request gets as the first request, whatever
\* was requested before and however it was answered; a request that failed
\* with 400, 404 or 405 changes no later response.
C21_Stateless ==
    Served
    => \E a \in FirstAnswers(request) : Untimed(a.response) = Untimed(response)

\* /api/add?a=1&b=10 has been answered 200 with result 11 after the
\* request before it was answered 400.
C21_Witness ==
    /\ Served
    /\ previous = 400
    /\ request.route = "/api/add"
    /\ request.args = QueryAB(<<"1">>, <<"1", "0">>)
    /\ response.status = 200
    /\ response.body.result = IntV(11)

\* C26: GET / and GET /api/health are answered 200 with the status
\* 'healthy', /api/health with the version '1.0.0' too, in every reachable
\* state: after any sequence of requests, answered with success or not.
C26_HealthAlwaysHealthy ==
    /\ ServedGet /\ request.route = "/"
       => /\ response.status = 200
          /\ response.body.status = "healthy"
    /\ ServedGet /\ request.route = "/api/health"
       => /\ response.status = 200
          /\ response.body.status = "healthy"
          /\ response.body.version = "1.0.0"

\* GET / has been answered 200 and healthy after a request answered 500.
C26_Witness ==
    /\ ServedGet
    /\ request.route = "/"
    /\ previous = 500
    /\ response.status = 200
    /\ response.body.status = "healthy"

----------------------------------------------------------------------------
(* Properties of the two integer routes, checked under Spec.               *)

\* The answer of /api/parity/<n> to the request with its route replaced.
ParityAnswer(r) ==
    CHOOSE a \in FirstAnswers([r EXCEPT !.route = "/api/parity/<int:n>"]) : TRUE

----------------------------------------------------------------------------
(* Properties of the endpoint catalog, checked under Spec.                 *)

\* The routes registered with @app.route.
RegisteredRoutes == Paths \ {"/api/nonexistent"}

\* The route rule a catalog path stands for: the path without its query
\* template, a placeholder <n> read as the converter <int:n>.
CatalogRule(p) ==
    CASE p = "/api/add?a=<num>&b=<num>" -> "/api/add"
      [] p = "/api/subtract?a=<num>&b=<num>" -> "/api/subtract"
      [] p = "/api/multiply?a=<num>&b=<num>" -> "/api/multiply"
      [] p = "/api/divide?a=<num>&b=<num>" -> "/api/divide"
      [] p = "/api/square?n=<num>" -> "/api/square"
      [] p = "/api/abs?n=<num>" -> "/api/abs"
      [] p = "/api/parity/<n>" -> "/api/parity/<int:n>"
      [] p = "/api/odd_even/<n>" -> "/api/odd_even/<int:n>"
      [] OTHER -> p

\* C23: the catalog of GET /api/info lists all available endpoints: every
\* registered route has an entry in 'endpoints', and the path and the
\* methods of every entry are those of a registered route.
C23_CatalogComplete ==
    ServedGet /\ request.route = "/api/info"
    => LET entries == response.body.endpoints
       IN  /\ \A r \in RegisteredRoutes :
                 \E i \in DOMAIN entries : CatalogRule(entries[i].path) = r
           /\ \A i \in DOMAIN entries :
                 /\ CatalogRule(entries[i].path) \in RegisteredRoutes
                 /\ entries[i].method = AllowedMethods(CatalogRule(entries[i].path))

----------------------------------------------------------------------------
(* Further properties of the operation layer, checked under OpsSpec.       *)

\* The number of 1-bits of the natural number m.
RECURSIVE PopCount(_)
PopCount(m) == IF m = 0 THEN 0 ELSE (m % 2) + PopCount(m \div 2)

IntegerFunctions == {"is_even", "is_odd", "even_parity"}
NumberFunctions ==
    {"add_numbers", "subtract_numbers", "multiply_numbers", "divide_numbers",
     "square", "absolute_value"}
Args == {call.args[i] : i \in 1..Len(call.args)}

\* C25: is_even, is_odd and even_parity accept integers only: a float (a
\* whole-valued one too), a string or None raises ValueError and an integer
\* does not; add_numbers, subtract_numbers, multiply_numbers,
\* divide_numbers, square and absolute_value raise no ValueError for
\* operands that are integers or floats, and raise ValueError when an
\* operand is a string or None.
C25_AcceptedTypes ==
    /\ call.fn \in IntegerFunctions
       => /\ call.args[1].tag \in {"float", "str", "none"} => Raised("ValueError")
          /\ call.args[1].tag = "int" => Returned
    /\ call.fn \in NumberFunctions
       => /\ (\E x \in Args : x.tag \in {"str", "none"}) => Raised("ValueError")
          /\ (\A x \in Args : x.tag \in {"int", "float"}) => ~Raised("ValueError")

\* is_even(4.0) has raised ValueError.
C25_Witness ==
    /\ Called("is_even")
    /\ call.args = <<FloatV(4, 1)>>
    /\ Raised("ValueError")

\* The operand is 0, the integer or the float.
IsZero(x) == x = IntV(0) \/ (x.tag = "float" /\ x.num = 0 /\ x.den # 0)

\* C28: in divide_numbers the type checks precede the zero check: a call
\* whose b is 0 and whose a is no number or a boolean, or whose b is False,
\* raises ValueError and never ZeroDivisionError; ZeroDivisionError is
\* raised only when both operands are non-boolean numbers and b equals 0,
\* the integer 0 or the float 0.0.
C28_TypeChecksBeforeZeroCheck ==
    Called("divide_numbers")
    => LET a == call.args[1]
           b == call.args[2]
       IN  /\ IsZero(b) /\ ~Numeric(a) => Raised("ValueError")
           /\ b = BoolV(FALSE) => Raised("ValueError")
           /\ Raised("ZeroDivisionError") => Numeric(a) /\ Numeric(b) /\ IsZero(b)
           /\ Numeric(a) /\ IsZero(b) => Raised("ZeroDivisionError")

\* divide_numbers("5", 0) has raised ValueError.
C28_Witness ==
    /\ Called("divide_numbers")
    /\ call.args = <<StrV(<<"5">>), IntV(0)>>
    /\ Raised("ValueError")

----------------------------------------------------------------------------
(* Properties of the order of the checks of a view, checked under Spec.    *)

\* The response is the 400 answer with the given error message.
Refused(msg) ==
    /\ response.status = 400
    /\ response.mimetype = "application/json"
    /\ response.body = [error |-> msg]
Empty == StrV(<<>>)

\* C27: in every endpoint of query parameters the test for presence comes
\* before the conversion to integers: when a required parameter is absent
\* the answer is the 'required' error, also when a supplied parameter is
\* no integer, and no conversion has been tried; a parameter supplied with
\* the empty value counts as present and gets the 'valid integer(s)' error.
C27_PresenceBeforeCoercion ==
    /\ ServedGet /\ request.route \in TwoOperandRoutes
       => LET a == request.args.a
              b == request.args.b
          IN  /\ ~Present(a) \/ ~Present(b)
                 => /\ Refused(MsgRequiredAB)
                    /\ ~InTrace("int(a)") /\ ~InTrace("int(b)")
              /\ Present(a) /\ Present(b) /\ (a = Empty \/ b = Empty)
                 => /\ Refused(MsgValidIntegers)
                    /\ InTrace("int(a)")
    /\ ServedGet /\ request.route \in OneOperandRoutes
       => LET n == request.args.n
          IN  /\ ~Present(n) => Refused(MsgRequiredN) /\ ~InTrace("int(n)")
              /\ n = Empty => Refused(MsgValidInteger) /\ InTrace("int(n)")

\* /api/multiply?a=. without b has been answered with the 'required' error.
C27_Witness ==
    /\ ServedGet
    /\ request.route = "/api/multiply"
    /\ request.args.a = StrV(<<".">>)
    /\ request.args.b = NoneV
    /\ Refused(MsgRequiredAB)

\* The steps of a view that convert a parameter to an integer.
CoercionSteps == {"int(a)", "int(b)", "int(n)"}
CalledOperation == \E i \in 1..Len(trace) : trace[i] \in OperationSteps

----------------------------------------------------------------------------
(* Properties of sort_list, checked under ListSpec.                        *)

\* x and y are the same value of the same type.
Same(x, y) == x.tag = y.tag /\ x = y
SameItems(a, b) == Len(a) = Len(b) /\ \A i \in 1..Len(a) : Same(a[i], b[i])
IsList(x, items) == x.tag = "list" /\ SameItems(x.elems, items)
\* Each value occurs in b as often as in a.
Occurrences(a, x) == Cardinality({i \in 1..Len(a) : Same(a[i], x)})
Permutation(a, b) ==
    /\ Len(a) = Len(b)
    /\ \A i \in 1..Len(a) : Occurrences(a, a[i]) = Occurrences(b, a[i])
\* r is in ascending order, or in descending order for reverse: no element
\* is followed, at whatever distance, by a smaller one (by a greater one).
Ordered(r, reverse) ==
    \A i, j \in 1..Len(r) :
        i < j => IF reverse THEN ~PyLt(r[i], r[j]) ELSE ~PyLt(r[j], r[i])
\* The argument is a list of numbers, booleans among them.
ListOfNumbers(x) ==
    /\ x.tag = "list"
    /\ \A i \in 1..Len(x.elems) : x.elems[i].tag \in {"int", "float", "bool"}
HasNaN(x) == \E i \in 1..Len(x.elems) : IsNaN(x.elems[i])
\* The caller's object is as it was passed.
InputUnchanged ==
    /\ operands[1].tag = call.args[1].tag
    /\ IF call.args[1].tag \in {"list", "tuple"}
       THEN SameItems(operands[1].elems, call.args[1].elems)
       ELSE operands[1] = call.args[1]

\* C30: sort_list(numbers, reverse) returns a new list that is a
\* permutation of numbers in ascending order, descending when reverse is
\* true, and leaves the input list unchanged; it raises ValueError and
\* returns nothing when numbers is no list or holds an element that is no
\* number, and it accepts boolean elements.
C30_SortListSorts ==
    Called("sort_list")
    => LET numbers == call.args[1]
           reverse == call.args[2].v
       IN  /\ InputUnchanged
           /\ ~ListOfNumbers(numbers) => Raised("ValueError")
           /\ ListOfNumbers(numbers)
              => /\ Returned
                 /\ outcome.new
                 /\ outcome.value.tag = "list"
                 /\ Permutation(numbers.elems, outcome.value.elems)
                 /\ Ordered(outcome.value.elems, reverse)

\* C30 as the code has it: the same, the order of the result being promised
\* for lists without nan only; a list holding nan is returned as a new
\* permutation of the input too, in an order that need not be ascending.
C30_SortListSortsComparables ==
    Called("sort_list")
    => LET numbers == call.args[1]
           reverse == call.args[2].v
       IN  /\ InputUnchanged
           /\ ~ListOfNumbers(numbers) => Raised("ValueError")
           /\ ListOfNumbers(numbers)
              => /\ Returned
                 /\ outcome.new
                 /\ outcome.value.tag = "list"
                 /\ Permutation(numbers.elems, outcome.value.elems)
                 /\ ~HasNaN(numbers) => Ordered(outcome.value.elems, reverse)

\* sort_list([2, True, 1.5]) has returned [True, 1.5, 2] and the caller's
\* list is [2, True, 1.5] still.
C30_Witness ==
    /\ Called("sort_list")
    /\ IsList(call.args[1], <<IntV(2), BoolV(TRUE), FloatV(3, 2)>>)
    /\ ~call.args[2].v
    /\ Returned
    /\ outcome.new
    /\ IsList(outcome.value, <<BoolV(TRUE), FloatV(3, 2), IntV(2)>>)
    /\ IsList(operands[1], <<IntV(2), BoolV(TRUE), FloatV(3, 2)>>)

====
